---- MODULE Spec2Model ----
(***************************************************************************)
(* State-machine model of the Git backend of LinuxGit                      *)
(* (app/src-tauri/src/git and app/src-tauri/src/commands/git).             *)
(*                                                                         *)
(* The repository is the state: the commit store, the local branch refs,   *)
(* HEAD, the index, the working tree, the in-progress marker files         *)
(* (MERGE_HEAD, CHERRY_PICK_HEAD, REVERT_HEAD) and the configured          *)
(* identity.  Every command of the backend is one action; the calls it     *)
(* makes into the embedded engine (git2) are operators that compute what   *)
(* the engine does to index, working tree and refs.                        *)
(***************************************************************************)
EXTENDS Integers, Sequences, FiniteSets, TLC

\* ------------------------------------------------------------------ bounds
MaxCommits == 5
MaxBlob == 2
MaxOps == 3

Paths == {"a"}
Branches == {"main", "feature"}
Idents == {"alice", "bob"}

Absent == 0
Unmerged == -1
Blobs == 1..MaxBlob
Markers == MaxBlob + 1
EmptyTree == [p \in Paths |-> Absent]
NoMarkers == {}

TagNames == {"v1", "v2"}
Messages == {"", "msg"}
None == "<none>"
RemoteNames == {"fork", "origin", "upstream"}
\* the names in the order repo.remotes() lists them (sorted by name)
RemoteOrder == <<"fork", "origin", "upstream">>

\* the directories a repository path may name, and the commands in flight
Dirs == {"/repo", "/dir", "/none"}
Procs == {1, 2}

\* the scanner's directory trees: a path below the scanned root is a
\* sequence of entry names, a name a sequence of characters
MaxTreeDepth == 2
MaxScanDepth == 3
EntryNames == {<<"a">>, <<".", "h">>}
Nodes == UNION {[1..n -> EntryNames] : n \in 0..MaxTreeDepth}
\* absent, a plain directory, a directory with a .git that opens as a
\* repository, or one with a .git that does not
NodeKinds == {"absent", "dir", "repo", "broken"}

VARIABLES commits, refs, head, index, workdir, markers, sig, last, steps,
          tags, remotes, tracking, results,
          repo_path, fs, mutex, pc, copy, served,
          dirs, max_depth, order, found,
          diff, file_diff,
          request, cred

vars == <<commits, refs, head, index, workdir, markers, sig, last, steps,
          tags, remotes, tracking, results,
          repo_path, fs, mutex, pc, copy, served,
          dirs, max_depth, order, found,
          diff, file_diff,
          request, cred>>
repo == <<commits, refs, head, index, workdir, markers>>
\* AppState.repo_path behind its mutex, the directories on disk, and each
\* command's position, its copy of the path and the repositories it served
session == <<repo_path, fs, mutex, pc, copy, served>>
\* the directory tree under the scanned root, the scan's depth limit, the
\* order read_dir lists entries in, and the paths of the RepoInfos returned
scan == <<dirs, max_depth, order, found>>
\* the diff the engine computed for the pathspec, as a sequence of deltas,
\* and the FileDiff built from it
diffing == <<diff, file_diff>>
\* what the transport asks the credentials callback, with the stored token
\* and the SSH environment, and what the callback returns
creds == <<request, cred>>
app == <<session, scan, diffing, creds>>
\* the tag refs and the remote side of the repository
ext == <<tags, remotes, tracking, results, app>>

\* ------------------------------------------------------- object store, refs
Oids == 1..Len(commits)

TreeOf(c) == IF c = 0 THEN EmptyTree ELSE commits[c].tree

HeadOid == IF head.sym # "" THEN refs[head.sym] ELSE head.oid

HeadTree == TreeOf(HeadOid)

\* head.shorthand() of a HEAD that resolves
shorthand == IF head.sym # "" THEN head.sym ELSE "HEAD"

RECURSIVE Ancestors(_)
Ancestors(c) ==
    {c} \cup UNION {Ancestors(commits[c].parents[i]) : i \in DOMAIN commits[c].parents}

merge_base(a, b) ==
    LET common == Ancestors(a) \cap Ancestors(b)
    IN {x \in common : \A y \in common \ {x} : x \notin Ancestors(y)}

FirstParentTree(c) ==
    IF Len(commits[c].parents) = 0 THEN EmptyTree ELSE TreeOf(commits[c].parents[1])

has_conflicts(idx) == \E p \in Paths : idx[p] = Unmerged

repository_state ==
    IF "MERGE_HEAD" \in markers THEN "merge"
    ELSE IF "REVERT_HEAD" \in markers THEN "revert"
    ELSE IF "CHERRY_PICK_HEAD" \in markers THEN "cherrypick"
    ELSE "none"

\* ------------------------------------------------------------ merge engine
\* git_merge_analysis: the flags the engine reports for merging `their`
merge_analysis(their) ==
    IF HeadOid = 0 THEN {"fastforward", "unborn"}
    ELSE IF their \in Ancestors(HeadOid) THEN {"up_to_date"}
    ELSE IF HeadOid \in Ancestors(their) THEN {"fastforward", "normal"}
    ELSE {"normal"}

is_up_to_date(analysis) == "up_to_date" \in analysis
is_fast_forward(analysis) == "fastforward" \in analysis
is_normal(analysis) == "normal" \in analysis

\* three-way merge of one path: a blob, Absent, or Unmerged
MergeBlob(b, o, t) ==
    IF o = t THEN o
    ELSE IF b = o THEN t
    ELSE IF b = t THEN o
    ELSE Unmerged

\* what the engine leaves in the working tree for an unmerged path
ConflictFile(o, t) ==
    IF o # Absent /\ t # Absent THEN Markers
    ELSE IF o # Absent THEN o ELSE t

\* the (virtual) common ancestor tree of two commits
RECURSIVE BaseTree(_, _)
BaseTree(a, b) ==
    LET B == merge_base(a, b)
    IN IF B = {} THEN EmptyTree
       ELSE IF Cardinality(B) = 1 THEN TreeOf(CHOOSE x \in B : TRUE)
       ELSE LET x == CHOOSE x \in B : \A z \in B : x <= z
                y == CHOOSE y \in B \ {x} : \A z \in B \ {x} : y <= z
                bb == BaseTree(x, y)
            IN [p \in Paths |->
                  LET m == MergeBlob(bb[p], TreeOf(x)[p], TreeOf(y)[p])
                  IN IF m = Unmerged THEN Markers ELSE m]

\* git_merge_trees(base, HEAD tree, theirs) followed by git_merge__check_result
\* and git_checkout_index: the merged index and working tree, or an error
\* when a path the merge changes has staged or unstaged local changes.
MergeInto(base, theirs) ==
    LET ours == HeadTree
        merged == [p \in Paths |-> MergeBlob(base[p], ours[p], theirs[p])]
        changed == {p \in Paths : merged[p] # ours[p]}
        dirty == {p \in changed :
                    \/ index[p] = Unmerged
                    \/ (index[p] # ours[p] /\ index[p] # merged[p])
                    \/ workdir[p] # index[p]}
    IN [ok |-> dirty = {},
        index |-> [p \in Paths |-> IF p \in changed THEN merged[p] ELSE index[p]],
        workdir |-> [p \in Paths |->
                       IF p \notin changed THEN workdir[p]
                       ELSE IF merged[p] = Unmerged THEN ConflictFile(ours[p], theirs[p])
                       ELSE merged[p]]]

\* --------------------------------------------------------------- checkout
\* git_checkout_* with GIT_CHECKOUT_FORCE: baseline is the tree HEAD names
\* when the checkout runs, target the tree being checked out.
ForceCheckout(baseline, target) ==
    LET gone == {p \in Paths : target[p] = Absent
                               /\ (baseline[p] # Absent \/ index[p] # Absent)}
        written == {p \in Paths : target[p] # Absent
                                  /\ (baseline[p] # target[p] \/ workdir[p] # target[p])}
    IN [ok |-> TRUE,
        workdir |-> [p \in Paths |-> IF target[p] # Absent THEN target[p]
                                     ELSE IF p \in gone THEN Absent
                                     ELSE workdir[p]],
        index |-> [p \in Paths |-> IF p \in written THEN target[p]
                                   ELSE IF p \in gone THEN Absent
                                   ELSE index[p]]]

\* git_checkout_* with the default options (GIT_CHECKOUT_SAFE)
SafeCheckout(baseline, target) ==
    LET delta == {p \in Paths : baseline[p] # target[p]}
        conflict == {p \in delta :
                       IF baseline[p] = Absent THEN workdir[p] # Absent
                       ELSE IF target[p] = Absent
                            THEN workdir[p] \notin {Absent, baseline[p]}
                       ELSE workdir[p] \notin {baseline[p], target[p]}}
    IN [ok |-> conflict = {},
        workdir |-> [p \in Paths |-> IF p \in delta THEN target[p] ELSE workdir[p]],
        index |-> [p \in Paths |-> IF p \in delta THEN target[p] ELSE index[p]]]

\* ------------------------------------------------------- commit and HEAD
NewCommit(tree, author, committer, parents) ==
    [parents |-> parents, tree |-> tree, author |-> author, committer |-> committer]

\* the oid the next commit object gets; a sha that names no commit
NextOid == Len(commits) + 1

\* repo.commit(Some("HEAD"), author, committer, _, tree, parents): the object is
\* written and the ref HEAD resolves to (the branch, or HEAD itself when
\* detached) is moved to it
commit(author, committer, tree, parents) ==
    /\ Len(commits) < MaxCommits
    /\ commits' = Append(commits, NewCommit(tree, author, committer, parents))
    /\ IF head.sym # ""
       THEN refs' = [refs EXCEPT ![head.sym] = NextOid] /\ head' = head
       ELSE head' = [head EXCEPT !.oid = NextOid] /\ refs' = refs

\* the early return on index.has_conflicts(): the staged result and the
\* operation's marker stay, nothing is committed, nothing is cleaned up
Conflicted_cleaned(m, marker) ==
    /\ index' = m.index
    /\ workdir' = m.workdir
    /\ markers' = NoMarkers
    /\ UNCHANGED <<commits, refs, head, sig, ext>>

Conflicted(m, marker) ==
    /\ index' = m.index
    /\ workdir' = m.workdir
    /\ markers' = markers \cup {marker}
    /\ UNCHANGED <<commits, refs, head, sig, ext>>

\* repo.cleanup_state(): every in-progress marker file is removed
cleanup_state_skipped(ms) == ms

cleanup_state(ms) == NoMarkers

\* a plausible slip: the parents of the result commit in the other order
Committed_swapped(m, author, committer, parents, marker) ==
    /\ index' = m.index
    /\ workdir' = m.workdir
    /\ commit(author, committer, m.index,
              [i \in DOMAIN parents |-> parents[Len(parents) + 1 - i]])
    /\ markers' = cleanup_state(markers \cup {marker})
    /\ UNCHANGED <<sig, ext>>

\* the clean path: write_tree from the staged index, the result commit on
\* HEAD, then cleanup_state
Committed(m, author, committer, parents, marker) ==
    /\ index' = m.index
    /\ workdir' = m.workdir
    /\ commit(author, committer, m.index, parents)
    /\ markers' = cleanup_state(markers \cup {marker})
    /\ UNCHANGED <<sig, ext>>

\* a plausible slip: the up-to-date return refreshes index and working tree
\* from HEAD
AlreadyUpToDate_checkout ==
    /\ index' = ForceCheckout(HeadTree, HeadTree).index
    /\ workdir' = ForceCheckout(HeadTree, HeadTree).workdir
    /\ UNCHANGED <<commits, refs, head, markers, sig, ext>>

\* analysis.0.is_up_to_date(): the handler returns before it writes anything
AlreadyUpToDate ==
    UNCHANGED <<commits, refs, head, index, workdir, markers, sig, ext>>

\* git_reference__update_terminal("HEAD", oid) / set_target on repo.head()
MoveHead(oid) ==
    IF head.sym # ""
    THEN refs' = [refs EXCEPT ![head.sym] = oid] /\ head' = head
    ELSE head' = [head EXCEPT !.oid = oid] /\ refs' = refs

NoPull == [fast_forward |-> FALSE, conflicts |-> FALSE, updated_files |-> 0]

\* the call returns: last records the command, its result, the branch it
\* took and whether it repeats the call before it (same command, same
\* arguments, both successful)
Returned(op, res, mode, again) ==
    /\ steps < MaxOps
    /\ steps' = steps + 1
    /\ last' = [op |-> op, res |-> res, mode |-> mode, out |-> NoPull, again |-> again]

Did(op, res, mode) == Returned(op, res, mode, FALSE)

\* the call returns an error and has changed nothing
Fails(op, res, mode) ==
    /\ Did(op, res, mode)
    /\ UNCHANGED <<commits, refs, head, index, workdir, markers, sig, ext>>

UserTrees == [Paths -> 0..MaxBlob]

\* refs/tags/<name> is not there
NoTag == [kind |-> "none", target |-> 0, message |-> None, tagger |-> None]

\* Repository::init: no commit, HEAD on the unborn branch main
FreshRepo ==
    /\ commits = <<>>
    /\ refs = [b \in Branches |-> 0]
    /\ head = [sym |-> "main", oid |-> 0]
    /\ index = EmptyTree
    /\ workdir = EmptyTree

\* a clean clone with two diverged branches: main at commit 2, feature at
\* commit 3 (written by a collaborator), both children of the root commit 1
DivergedRepo(t1, t2, t3) ==
    /\ commits = <<NewCommit(t1, "alice", "alice", <<>>),
                   NewCommit(t2, "alice", "alice", <<1>>),
                   NewCommit(t3, "bob", "bob", <<1>>)>>
    /\ refs = [b \in Branches |-> IF b = "main" THEN 2 ELSE 3]
    /\ head = [sym |-> "main", oid |-> 0]
    /\ index = t2
    /\ workdir = t2

\* a repository whose HEAD is on a branch without commits (an orphan branch
\* main) while feature holds the collaborator's history
OrphanRepo(t1, t3) ==
    /\ commits = <<NewCommit(t1, "alice", "alice", <<>>),
                   NewCommit(t3, "bob", "bob", <<1>>)>>
    /\ refs = [b \in Branches |-> IF b = "main" THEN 0 ELSE 2]
    /\ head = [sym |-> "main", oid |-> 0]
    /\ index = EmptyTree
    /\ workdir = EmptyTree

\* the repository open_repository / init_repository hands to the commands
\* AppState::default(): no repository is open and no command runs
NoSession ==
    /\ repo_path = None
    /\ fs = [d \in Dirs |-> IF d = "/repo" THEN "repo" ELSE IF d = "/dir" THEN "dir" ELSE "missing"]
    /\ mutex = 0
    /\ pc = [p \in Procs |-> "idle"]
    /\ copy = [p \in Procs |-> None]
    /\ served = [d \in Dirs |-> 0]

\* FileDiff as get_file_diff sets it up before the diff is printed
NewFileDiff == [hunks |-> <<>>, is_binary |-> FALSE, additions |-> 0, deletions |-> 0]

NoDiff ==
    /\ diff = <<>>
    /\ file_diff = NewFileDiff

\* a URL is its scheme, the labels of its host and the segments of its path;
\* the text of the URL is these pieces one after the other
Urls ==
    [scheme : {"https://", "http://", "ssh://"},
     host : {<<"github.com">>, <<"github.com", ".evil.example">>, <<"example.org">>},
     path : {<<"/r.git">>, <<"/", "github.com", "/r.git">>}]

CredTypes == {"USER_PASS_PLAINTEXT", "SSH_KEY", "DEFAULT"}

\* the default key files in the order of key_paths
KeyPaths == <<"id_ed25519", "id_rsa">>

Requests ==
    {r \in [url : Urls,
            username_from_url : {None, "git"},
            allowed_types : SUBSET CredTypes,
            token : {None, "tok"},
            agent : BOOLEAN,
            keys : SUBSET {"id_ed25519", "id_rsa"},
            default : BOOLEAN] :
        r.url.scheme # "ssh://" => "SSH_KEY" \notin r.allowed_types}

NoCred == [kind |-> "none", with |-> None]

NoRequest ==
    /\ request = [url |-> [scheme |-> "https://", host |-> <<"github.com">>,
                           path |-> <<"/r.git">>],
                  username_from_url |-> None, allowed_types |-> {}, token |-> None,
                  agent |-> FALSE, keys |-> {}, default |-> FALSE]
    /\ cred = NoCred

\* nothing is there to scan
NoScan ==
    /\ dirs = [n \in Nodes |-> "absent"]
    /\ max_depth = 0
    /\ order = <<>>
    /\ found = <<>>

Init ==
    /\ \/ FreshRepo
       \/ \E t1, t2, t3 \in UserTrees : DivergedRepo(t1, t2, t3)
       \/ \E t1, t3 \in UserTrees : OrphanRepo(t1, t3)
    /\ markers = NoMarkers
    /\ tags = [t \in TagNames |-> NoTag]
    /\ remotes = <<"origin", "upstream">>
    /\ tracking = {}
    /\ results = <<>>
    /\ sig = "alice"
    /\ last = [op |-> "open", res |-> "ok", mode |-> "", out |-> NoPull, again |-> FALSE]
    /\ steps = 0
    /\ NoSession
    /\ NoScan
    /\ NoDiff
    /\ NoRequest

\* ------------------------------------------------------------ environment
\* the user edits, creates or deletes a file of the working tree
WriteFile(p, c) ==
    /\ workdir[p] # c
    /\ workdir' = [workdir EXCEPT ![p] = c]
    /\ Did("write_file", "ok", "")
    /\ UNCHANGED <<commits, refs, head, index, markers, sig, ext>>

set_git_config(id) ==
    /\ sig' = id
    /\ Did("set_git_config", "ok", "")
    /\ UNCHANGED <<commits, refs, head, index, workdir, markers, ext>>

\* ---------------------------------------------------------- status engine
\* a plausible slip: the index is never written
stage_files_unwritten(P) ==
    IF \E p \in P : workdir[p] = Absent
    THEN Fails("stage_files", "Git2", "")
    ELSE /\ Did("stage_files", "ok", IF P = {} THEN "" ELSE "paths")
         /\ UNCHANGED <<commits, refs, head, index, workdir, markers, sig, ext>>

\* index.add_path for each path (a missing file is an error), index.write
stage_files(P) ==
    IF \E p \in P : workdir[p] = Absent
    THEN Fails("stage_files", "Git2", "")
    ELSE /\ index' = [p \in Paths |-> IF p \in P THEN workdir[p] ELSE index[p]]
         /\ Did("stage_files", "ok", IF P = {} THEN "" ELSE "paths")
         /\ UNCHANGED <<commits, refs, head, workdir, markers, sig, ext>>

\* repo.head()?.peel_to_commit() comes first; then per path reset_default to
\* HEAD's entry when HEAD's tree has the path, index.remove_path otherwise
unstage_files(P) ==
    IF HeadOid = 0
    THEN Fails("unstage_files", "Git2", "")
    ELSE /\ index' = [p \in Paths |-> IF p \in P THEN HeadTree[p] ELSE index[p]]
         /\ Did("unstage_files", "ok", IF P = {} THEN "" ELSE "paths")
         /\ UNCHANGED <<commits, refs, head, workdir, markers, sig, ext>>

\* a plausible slip: a path without an index entry counts as new in the
\* working tree whether or not a file is there
StatusFlags_new_without_file(p) ==
    IF index[p] = Unmerged THEN {"conflicted"}
    ELSE (IF HeadTree[p] = index[p] THEN {}
          ELSE IF HeadTree[p] = Absent THEN {"index_new"}
          ELSE IF index[p] = Absent THEN {"index_deleted"}
          ELSE {"index_modified"})
         \cup
         (IF index[p] = Absent THEN {"wt_new"}
          ELSE IF index[p] = workdir[p] THEN {}
          ELSE IF workdir[p] = Absent THEN {"wt_deleted"}
          ELSE {"wt_modified"})

\* repo.statuses: the status flags of each path (unmodified paths have none)
StatusFlags(p) ==
    IF index[p] = Unmerged THEN {"conflicted"}
    ELSE (IF HeadTree[p] = index[p] THEN {}
          ELSE IF HeadTree[p] = Absent THEN {"index_new"}
          ELSE IF index[p] = Absent THEN {"index_deleted"}
          ELSE {"index_modified"})
         \cup
         (IF index[p] = workdir[p] THEN {}
          ELSE IF index[p] = Absent THEN {"wt_new"}
          ELSE IF workdir[p] = Absent THEN {"wt_deleted"}
          ELSE {"wt_modified"})

FileStatus(p, status, staged) == [path |-> p, status |-> status, staged |-> staged]

\* get_repo_status, with `skip` telling whether a conflicted entry ends the
\* loop iteration (the `continue` of the source)
StatusBuckets(skip) ==
    LET entries == {p \in Paths : StatusFlags(p) # {}}
        conflicted == {p \in entries : "conflicted" \in StatusFlags(p)}
        rest == entries \ conflicted
        IndexKind(p) == IF "index_new" \in StatusFlags(p) THEN "Added"
                        ELSE IF "index_modified" \in StatusFlags(p) THEN "Modified"
                        ELSE IF "index_deleted" \in StatusFlags(p) THEN "Deleted"
                        ELSE "Renamed"
        WtKind(p) == IF "wt_modified" \in StatusFlags(p) THEN "Modified"
                     ELSE IF "wt_deleted" \in StatusFlags(p) THEN "Deleted"
                     ELSE IF "conflicted" \in StatusFlags(p) THEN "Modified"
                     ELSE "Renamed"
    IN [staged |-> {FileStatus(p, IndexKind(p), TRUE) :
                      p \in {q \in rest : StatusFlags(q) \cap
                               {"index_new", "index_modified", "index_deleted",
                                "index_renamed"} # {}}},
        unstaged |-> {FileStatus(p, WtKind(p), FALSE) :
                        p \in {q \in rest : "wt_new" \notin StatusFlags(q)
                                 /\ StatusFlags(q) \cap
                                      {"wt_modified", "wt_deleted", "wt_renamed"} # {}}
                              \cup (IF skip THEN {} ELSE conflicted)},
        untracked |-> {FileStatus(p, "Untracked", FALSE) :
                         p \in {q \in rest : "wt_new" \in StatusFlags(q)}},
        conflicts |-> {FileStatus(p, "Conflict", FALSE) : p \in conflicted}]

\* a plausible slip: a conflicted entry is not skipped and is reported as an
\* unstaged modification as well
get_repo_status_noskip == StatusBuckets(FALSE)

get_repo_status == StatusBuckets(TRUE)

PathsOf(bucket) == {f.path : f \in bucket}

\* the get_status command: the StatusInfo is returned, nothing is written
get_status ==
    /\ steps < MaxOps
    /\ steps' = steps + 1
    /\ last' = [op |-> "get_status", res |-> "ok", mode |-> "",
                out |-> get_repo_status, again |-> FALSE]
    /\ UNCHANGED <<commits, refs, head, index, workdir, markers, sig, ext>>

\* checkout_head with force and the listed paths as pathspec; without a
\* path the builder has no pathspec and the checkout covers every path
discard_changes(P) ==
    IF HeadOid = 0
    THEN Fails("discard_changes", "Git2", "")
    ELSE LET c == ForceCheckout(HeadTree, HeadTree)
             covered == IF P = {} THEN Paths ELSE P
         IN /\ workdir' = [p \in Paths |-> IF p \in covered THEN c.workdir[p] ELSE workdir[p]]
            /\ index' = [p \in Paths |-> IF p \in covered THEN c.index[p] ELSE index[p]]
            /\ Did("discard_changes", "ok", IF P = {} THEN "" ELSE "paths")
            /\ UNCHANGED <<commits, refs, head, markers, sig, ext>>

\* -------------------------------------------------- commit graph mutator
\* a plausible slip: the commit ends the operation in progress
create_commit_cleanup ==
    IF has_conflicts(index)
    THEN Fails("create_commit", "Git2", "")
    ELSE /\ commit(sig, sig, index, IF HeadOid = 0 THEN <<>> ELSE <<HeadOid>>)
         /\ markers' = NoMarkers
         /\ Did("create_commit", "ok", "")
         /\ UNCHANGED <<index, workdir, sig, ext>>

create_commit ==
    IF has_conflicts(index)
    THEN Fails("create_commit", "Git2", "")
    ELSE /\ commit(sig, sig, index, IF HeadOid = 0 THEN <<>> ELSE <<HeadOid>>)
         /\ Did("create_commit", "ok", "")
         /\ UNCHANGED <<index, workdir, markers, sig, ext>>

cherry_pick_commit(k) ==
    IF k \notin Oids
    THEN Fails("cherry_pick_commit", "CommitNotFound", "")
    ELSE LET m == MergeInto(FirstParentTree(k), TreeOf(k))
         IN IF HeadOid = 0 \/ Len(commits[k].parents) > 1 \/ ~m.ok
            THEN \* repo.cherrypick fails and removes its own marker
                 /\ markers' = markers \ {"CHERRY_PICK_HEAD"}
                 /\ Did("cherry_pick_commit", "Git2", "")
                 /\ UNCHANGED <<commits, refs, head, index, workdir, sig, ext>>
            ELSE IF has_conflicts(m.index)
            THEN /\ Conflicted(m, "CHERRY_PICK_HEAD")
                 /\ Did("cherry_pick_commit", "MergeConflict", "")
            ELSE /\ Committed(m, sig, commits[k].author, <<HeadOid>>, "CHERRY_PICK_HEAD")
                 /\ Did("cherry_pick_commit", "ok", "")

revert_commit(k) ==
    IF k \notin Oids
    THEN Fails("revert_commit", "CommitNotFound", "")
    ELSE LET m == MergeInto(TreeOf(k), FirstParentTree(k))
         IN IF HeadOid = 0 \/ Len(commits[k].parents) > 1 \/ ~m.ok
            THEN /\ markers' = markers \ {"REVERT_HEAD"}
                 /\ Did("revert_commit", "Git2", "")
                 /\ UNCHANGED <<commits, refs, head, index, workdir, sig, ext>>
            ELSE IF has_conflicts(m.index)
            THEN /\ Conflicted(m, "REVERT_HEAD")
                 /\ Did("revert_commit", "MergeConflict", "")
            ELSE /\ Committed(m, sig, sig, <<HeadOid>>, "REVERT_HEAD")
                 /\ Did("revert_commit", "ok", "")

\* the branch of the tri-state the handlers take for an analysis
Outcome(analysis) ==
    IF is_up_to_date(analysis) THEN "up_to_date"
    ELSE IF is_fast_forward(analysis) THEN "fastforward"
    ELSE IF is_normal(analysis) THEN "normal"
    ELSE "other"

\* repo.merge(&[their], None, None)
git_merge(their) ==
    IF HeadOid = 0
    THEN \* HEAD names no commit: the merge is refused before anything is written
         [ok |-> FALSE, index |-> index, workdir |-> workdir]
    ELSE MergeInto(BaseTree(HeadOid, their), TreeOf(their))

merge_commit_on(k, analysis) ==
    IF k \notin Oids
    THEN Fails("merge_commit", "CommitNotFound", "")
    ELSE IF is_up_to_date(analysis)
    THEN /\ Did("merge_commit", "ok", Outcome(analysis))
         /\ AlreadyUpToDate
    ELSE IF is_fast_forward(analysis)
    THEN IF head.sym # ""
         THEN \* find_reference("HEAD") is symbolic: set_target refuses it
              Fails("merge_commit", "Git2", Outcome(analysis))
         ELSE LET c == ForceCheckout(TreeOf(k), TreeOf(k))
              IN /\ head' = [head EXCEPT !.oid = k]
                 /\ index' = c.index
                 /\ workdir' = c.workdir
                 /\ Did("merge_commit", "ok", Outcome(analysis))
                 /\ UNCHANGED <<commits, refs, markers, sig, ext>>
    ELSE LET m == git_merge(k)
         IN IF ~m.ok
            THEN /\ markers' = markers \ {"MERGE_HEAD"}
                 /\ Did("merge_commit", "Git2", Outcome(analysis))
                 /\ UNCHANGED <<commits, refs, head, index, workdir, sig, ext>>
            ELSE IF has_conflicts(m.index)
            THEN /\ Conflicted(m, "MERGE_HEAD")
                 /\ Did("merge_commit", "MergeConflict", Outcome(analysis))
            ELSE /\ Committed(m, sig, sig, <<HeadOid, k>>, "MERGE_HEAD")
                 /\ Did("merge_commit", "ok", Outcome(analysis))

merge_commit(k) == merge_commit_on(k, IF k \in Oids THEN merge_analysis(k) ELSE {})

\* ---------------------------------------------------------- branch manager
merge_branch_on(name, analysis) ==
    LET t == refs[name]
    IN IF t = 0
       THEN Fails("merge_branch", "BranchNotFound", "")
       ELSE IF is_up_to_date(analysis)
       THEN /\ Did("merge_branch", "ok", Outcome(analysis))
            /\ AlreadyUpToDate
       ELSE IF is_fast_forward(analysis)
       THEN LET c == SafeCheckout(HeadTree, TreeOf(t))
            IN IF ~c.ok
               THEN Fails("merge_branch", "Git2", Outcome(analysis))
               ELSE IF HeadOid = 0
               THEN \* repo.head() fails on an unborn branch, after the checkout
                    /\ index' = c.index
                    /\ workdir' = c.workdir
                    /\ Did("merge_branch", "Git2", Outcome(analysis))
                    /\ UNCHANGED <<commits, refs, head, markers, sig, ext>>
               ELSE /\ index' = c.index
                    /\ workdir' = c.workdir
                    /\ MoveHead(t)
                    /\ Did("merge_branch", "ok", Outcome(analysis))
                    /\ UNCHANGED <<commits, markers, sig, ext>>
       ELSE IF is_normal(analysis)
       THEN LET m == git_merge(t)
            IN IF ~m.ok
               THEN /\ markers' = markers \ {"MERGE_HEAD"}
                    /\ Did("merge_branch", "Git2", Outcome(analysis))
                    /\ UNCHANGED <<commits, refs, head, index, workdir, sig, ext>>
               ELSE IF has_conflicts(m.index)
               THEN /\ Conflicted(m, "MERGE_HEAD")
                    /\ Did("merge_branch", "MergeConflict", Outcome(analysis))
               ELSE /\ Committed(m, sig, sig, <<HeadOid, t>>, "MERGE_HEAD")
                    /\ Did("merge_branch", "ok", Outcome(analysis))
       ELSE Fails("merge_branch", "OperationFailed", Outcome(analysis))

merge_branch(name) ==
    merge_branch_on(name, IF refs[name] # 0 THEN merge_analysis(refs[name]) ELSE {})

\* a plausible slip: a source sha that does not resolve falls back to HEAD
create_branch_head_fallback(name, from) ==
    IF HeadOid = 0 \/ refs[name] # 0
    THEN Fails("create_branch", "Git2", "")
    ELSE /\ refs' = [refs EXCEPT ![name] = IF from \in Oids THEN from ELSE HeadOid]
         /\ Did("create_branch", "ok", "")
         /\ UNCHANGED <<commits, head, index, workdir, markers, sig, ext>>

create_branch(name, from) ==
    IF from # 0 /\ from \notin Oids
    THEN Fails("create_branch", "CommitNotFound", "")
    ELSE IF (from = 0 /\ HeadOid = 0) \/ refs[name] # 0
    THEN Fails("create_branch", "Git2", "")
    ELSE /\ refs' = [refs EXCEPT ![name] = IF from = 0 THEN HeadOid ELSE from]
         /\ Did("create_branch", "ok", "")
         /\ UNCHANGED <<commits, head, index, workdir, markers, sig, ext>>

\* a plausible slip: the current-branch test is missing and the ref is removed
delete_branch_unguarded(name, force) ==
    IF refs[name] = 0
    THEN Fails("delete_branch", "BranchNotFound", "")
    ELSE IF ~force /\ HeadOid # 0 /\ merge_base(HeadOid, refs[name]) = {}
    THEN Fails("delete_branch", "OperationFailed", "unmerged")
    ELSE /\ refs' = [refs EXCEPT ![name] = 0]
         /\ Did("delete_branch", "ok", "")
         /\ UNCHANGED <<commits, head, index, workdir, markers, sig, ext>>

delete_branch(name, force) ==
    IF HeadOid # 0 /\ shorthand = name
    THEN Fails("delete_branch", "OperationFailed", "current")
    ELSE IF refs[name] = 0
    THEN Fails("delete_branch", "BranchNotFound", "")
    ELSE IF ~force /\ HeadOid # 0 /\ merge_base(HeadOid, refs[name]) = {}
    THEN \* only when both HEAD and the branch peel to commits is the
         \* merge base looked for
         Fails("delete_branch", "OperationFailed", "unmerged")
    ELSE /\ refs' = [refs EXCEPT ![name] = 0]
         /\ Did("delete_branch", "ok", "")
         /\ UNCHANGED <<commits, head, index, workdir, markers, sig, ext>>

checkout_branch(name) ==
    IF refs[name] = 0
    THEN Fails("checkout_branch", "BranchNotFound", "")
    ELSE LET c == SafeCheckout(HeadTree, TreeOf(refs[name]))
         IN IF ~c.ok
            THEN Fails("checkout_branch", "Git2", "")
            ELSE /\ index' = c.index
                 /\ workdir' = c.workdir
                 /\ head' = [sym |-> name, oid |-> 0]
                 /\ Did("checkout_branch", "ok", "")
                 /\ UNCHANGED <<commits, refs, markers, sig, ext>>

\* set_head_detached runs first, so the checkout's baseline is already the
\* target tree
checkout_commit(k) ==
    IF k \notin Oids
    THEN Fails("checkout_commit", "CommitNotFound", "")
    ELSE LET c == SafeCheckout(TreeOf(k), TreeOf(k))
         IN /\ head' = [sym |-> "", oid |-> k]
            /\ index' = c.index
            /\ workdir' = c.workdir
            /\ Did("checkout_commit", "ok", "")
            /\ UNCHANGED <<commits, refs, markers, sig, ext>>

Lightweight(k) == [kind |-> "lightweight", target |-> k, message |-> None, tagger |-> None]
Annotated(k, msg, tagger) ==
    [kind |-> "annotated", target |-> k, message |-> msg, tagger |-> tagger]

\* a plausible slip: the tag is created with force = true
create_tag_forced(k, tag_name, message) ==
    IF k \notin Oids
    THEN Fails("create_tag", "CommitNotFound", tag_name)
    ELSE /\ tags' = [tags EXCEPT ![tag_name] =
                        IF message # None THEN Annotated(k, message, sig)
                        ELSE Lightweight(k)]
         /\ Did("create_tag", "ok", tag_name)
         /\ UNCHANGED <<commits, refs, head, index, workdir, markers, sig,
                        remotes, tracking, results, app>>

\* repo.tag / repo.tag_lightweight with force = false: an existing
\* refs/tags/<name> makes the engine fail before it writes anything
create_tag(k, tag_name, message) ==
    IF k \notin Oids
    THEN Fails("create_tag", "CommitNotFound", tag_name)
    ELSE IF tags[tag_name] # NoTag
    THEN Fails("create_tag", "Git2", tag_name)
    ELSE /\ tags' = [tags EXCEPT ![tag_name] =
                        IF message # None THEN Annotated(k, message, sig)
                        ELSE Lightweight(k)]
         /\ Did("create_tag", "ok", tag_name)
         /\ UNCHANGED <<commits, refs, head, index, workdir, markers, sig,
                        remotes, tracking, results, app>>

\* a plausible slip: a missing tag is ignored
delete_tag_silent(tag_name) ==
    /\ tags' = [tags EXCEPT ![tag_name] = NoTag]
    /\ Returned("delete_tag", "ok", tag_name,
                last.op = "delete_tag" /\ last.mode = tag_name)
    /\ UNCHANGED <<commits, refs, head, index, workdir, markers, sig,
                   remotes, tracking, results, app>>

delete_tag(tag_name) ==
    IF tags[tag_name] = NoTag
    THEN /\ Returned("delete_tag", "Generic", tag_name,
                     last.op = "delete_tag" /\ last.mode = tag_name)
         /\ UNCHANGED <<commits, refs, head, index, workdir, markers, sig, ext>>
    ELSE /\ tags' = [tags EXCEPT ![tag_name] = NoTag]
         /\ Returned("delete_tag", "ok", tag_name,
                     last.op = "delete_tag" /\ last.mode = tag_name)
         /\ UNCHANGED <<commits, refs, head, index, workdir, markers, sig,
                        remotes, tracking, results, app>>

ResetTypes == {"soft", "mixed", "hard"}

\* a plausible slip: the hard reset writes the working tree from the index
\* as it was before the index is reset
reset_to_commit_stale_index(k, reset_type) ==
    IF reset_type \notin ResetTypes
    THEN Fails("reset_to_commit", "InvalidResetType", reset_type)
    ELSE IF k \notin Oids
    THEN Fails("reset_to_commit", "CommitNotFound", reset_type)
    ELSE IF reset_type = "soft" /\ (repository_state = "merge" \/ has_conflicts(index))
    THEN Fails("reset_to_commit", "Git2", reset_type)
    ELSE /\ workdir' = IF reset_type = "hard"
                       THEN [p \in Paths |-> IF index[p] = Unmerged THEN workdir[p]
                                             ELSE index[p]]
                       ELSE workdir
         /\ MoveHead(k)
         /\ index' = IF reset_type = "soft" THEN index ELSE TreeOf(k)
         /\ markers' = IF reset_type = "soft" THEN markers ELSE NoMarkers
         /\ Returned("reset_to_commit", "ok", reset_type,
                     last.op = "reset_to_commit" /\ last.res = "ok"
                        /\ last.mode = reset_type /\ HeadOid = k)
         /\ UNCHANGED <<commits, sig, ext>>

\* a plausible slip: ResetType::Mixed mapped to the engine's hard reset
reset_to_commit_mixed_as_hard(k, reset_type) ==
    IF reset_type \notin ResetTypes
    THEN Fails("reset_to_commit", "InvalidResetType", reset_type)
    ELSE IF k \notin Oids
    THEN Fails("reset_to_commit", "CommitNotFound", reset_type)
    ELSE IF reset_type = "soft" /\ (repository_state = "merge" \/ has_conflicts(index))
    THEN Fails("reset_to_commit", "Git2", reset_type)
    ELSE LET c == ForceCheckout(HeadTree, TreeOf(k))
         IN /\ workdir' = IF reset_type = "soft" THEN workdir ELSE c.workdir
            /\ MoveHead(k)
            /\ index' = IF reset_type = "soft" THEN index ELSE TreeOf(k)
            /\ markers' = IF reset_type = "soft" THEN markers ELSE NoMarkers
            /\ Returned("reset_to_commit", "ok", reset_type,
                        last.op = "reset_to_commit" /\ last.res = "ok"
                           /\ last.mode = reset_type /\ HeadOid = k)
            /\ UNCHANGED <<commits, sig, ext>>

\* commands::reset_to_commit parses the reset type, git::reset_to_commit
\* resolves the sha and calls repo.reset
reset_to_commit(k, reset_type) ==
    IF reset_type \notin ResetTypes
    THEN Fails("reset_to_commit", "InvalidResetType", reset_type)
    ELSE IF k \notin Oids
    THEN Fails("reset_to_commit", "CommitNotFound", reset_type)
    ELSE IF reset_type = "soft" /\ (repository_state = "merge" \/ has_conflicts(index))
    THEN Fails("reset_to_commit", "Git2", reset_type)
    ELSE LET c == ForceCheckout(HeadTree, TreeOf(k))
         IN /\ workdir' = IF reset_type = "hard" THEN c.workdir ELSE workdir
            /\ MoveHead(k)
            /\ index' = IF reset_type = "soft" THEN index ELSE TreeOf(k)
            /\ markers' = IF reset_type = "soft" THEN markers ELSE NoMarkers
            /\ Returned("reset_to_commit", "ok", reset_type,
                        last.op = "reset_to_commit" /\ last.res = "ok"
                           /\ last.mode = reset_type /\ HeadOid = k)
            /\ UNCHANGED <<commits, sig, ext>>

\* ------------------------------------------------------ remote sync engine
\* a plausible slip: updated_files is 1 on every successful pull
DidPull_one_on_success(res, mode, ff, cf, n) ==
    /\ steps < MaxOps
    /\ steps' = steps + 1
    /\ last' = [op |-> "pull", res |-> res, mode |-> mode,
                out |-> [fast_forward |-> ff, conflicts |-> cf,
                         updated_files |-> IF res = "ok" THEN 1 ELSE 0],
                again |-> FALSE]

DidPull(res, mode, ff, cf, n) ==
    /\ steps < MaxOps
    /\ steps' = steps + 1
    /\ last' = [op |-> "pull", res |-> res, mode |-> mode,
                out |-> [fast_forward |-> ff, conflicts |-> cf, updated_files |-> n],
                again |-> FALSE]

\* commands::pull_remote then git::pull: fetched tells whether the default
\* remote exists and its fetch succeeds, f is the commit FETCH_HEAD names then
pull_on(fetched, f, analysis) ==
    IF HeadOid = 0 \/ ~fetched \/ f \notin Oids
    THEN Fails("pull", "Git2", "")
    ELSE /\ IF is_up_to_date(analysis)
            THEN /\ DidPull("ok", Outcome(analysis), FALSE, FALSE, 0)
                 /\ AlreadyUpToDate
            ELSE IF is_fast_forward(analysis)
            THEN IF head.sym = ""
                 THEN \* branch_name is "HEAD": refs/heads/HEAD does not exist
                      /\ DidPull("Git2", Outcome(analysis), FALSE, FALSE, 0)
                      /\ UNCHANGED <<commits, refs, head, index, workdir, markers, sig, ext>>
                 ELSE LET c == ForceCheckout(TreeOf(f), TreeOf(f))
                      IN /\ refs' = [refs EXCEPT ![head.sym] = f]
                         /\ index' = c.index
                         /\ workdir' = c.workdir
                         /\ DidPull("ok", Outcome(analysis), TRUE, FALSE, 1)
                         /\ UNCHANGED <<commits, head, markers, sig, ext>>
            ELSE IF is_normal(analysis)
            THEN LET m == git_merge(f)
                 IN IF ~m.ok
                    THEN /\ markers' = markers \ {"MERGE_HEAD"}
                         /\ DidPull("Git2", Outcome(analysis), FALSE, FALSE, 0)
                         /\ UNCHANGED <<commits, refs, head, index, workdir, sig, ext>>
                    ELSE IF has_conflicts(m.index)
                    THEN /\ Conflicted(m, "MERGE_HEAD")
                         /\ DidPull("ok", Outcome(analysis), FALSE, TRUE, 0)
                    ELSE /\ Committed(m, sig, sig, <<HeadOid, f>>, "MERGE_HEAD")
                         /\ DidPull("ok", Outcome(analysis), FALSE, FALSE, 1)
            ELSE /\ DidPull("OperationFailed", Outcome(analysis), FALSE, FALSE, 0)
                 /\ UNCHANGED <<commits, refs, head, index, workdir, markers, sig, ext>>

pull(fetched, f) == pull_on(fetched, f, IF f \in Oids THEN merge_analysis(f) ELSE {})

\* ----------------------------------------------------------------- remotes
\* repo.remotes(): the configured names, in list order
ListRemotes(S) == SelectSeq(RemoteOrder, LAMBDA r : r \in S)

Configured == {remotes[i] : i \in 1..Len(remotes)}

\* the default fetch refspec repo.remote(name, url) configures
Refspec(name) == <<"+refs/heads/*:refs/remotes/", name, "/*">>

FetchResult(name) == [remote |-> name, updated_refs |-> <<Refspec(name)>>]

add_remote(name) ==
    IF name \in Configured
    THEN Fails("add_remote", "Git2", name)
    ELSE /\ remotes' = ListRemotes(Configured \cup {name})
         /\ Did("add_remote", "ok", name)
         /\ UNCHANGED <<commits, refs, head, index, workdir, markers, sig,
                        tags, tracking, results, app>>

remove_remote(name) ==
    IF name \notin Configured
    THEN Fails("remove_remote", "Git2", name)
    ELSE /\ remotes' = ListRemotes(Configured \ {name})
         /\ tracking' = tracking \ {name}
         /\ Did("remove_remote", "ok", name)
         /\ UNCHANGED <<commits, refs, head, index, workdir, markers, sig,
                        tags, results, app>>

\* reachable tells whether the transfer from the remote succeeds
fetch(remote_name, reachable) ==
    IF remote_name \notin Configured
    THEN Fails("fetch", "OperationFailed", remote_name)
    ELSE IF ~reachable
    THEN Fails("fetch", "Git2", remote_name)
    ELSE /\ tracking' = tracking \cup {remote_name}
         /\ results' = <<FetchResult(remote_name)>>
         /\ Did("fetch", "ok", remote_name)
         /\ UNCHANGED <<commits, refs, head, index, workdir, markers, sig,
                        tags, remotes, app>>

\* a plausible slip: the first failing remote ends the loop
RECURSIVE FetchEach_abort(_, _, _)
FetchEach_abort(names, up, acc) ==
    IF names = <<>> \/ Head(names) \notin up
    THEN acc
    ELSE FetchEach_abort(Tail(names), up,
                         [results |-> Append(acc.results, FetchResult(Head(names))),
                          tracking |-> acc.tracking \cup {Head(names)}])

\* the loop of fetch_all: an Ok is pushed, an Err is only logged
RECURSIVE FetchEach(_, _, _)
FetchEach(names, up, acc) ==
    IF names = <<>>
    THEN acc
    ELSE FetchEach(Tail(names), up,
                   IF Head(names) \in up
                   THEN [results |-> Append(acc.results, FetchResult(Head(names))),
                         tracking |-> acc.tracking \cup {Head(names)}]
                   ELSE acc)

\* listed tells whether repo.remotes() succeeds, up which remotes are reachable
fetch_all(listed, up) ==
    IF ~listed
    THEN Fails("fetch_all", "Git2", "")
    ELSE LET r == FetchEach(remotes, up, [results |-> <<>>, tracking |-> tracking])
         IN /\ results' = r.results
            /\ tracking' = r.tracking
            /\ Did("fetch_all", "ok", "")
            /\ UNCHANGED <<commits, refs, head, index, workdir, markers, sig,
                           tags, remotes, app>>

\* ----------------------------------------------------------------- session
\* what a session step leaves alone: the repository model of the sections above
gitside == <<commits, refs, head, index, workdir, markers, sig,
             tags, remotes, tracking, results>>

\* git::open_repo(path)
open_repo(path) ==
    IF fs[path] = "missing" THEN "RepoNotFound"
    ELSE IF fs[path] = "dir" THEN "NotARepo"
    ELSE "ok"

\* a repository command begins: state.repo_path.lock()
lock_path(p) ==
    /\ pc[p] = "idle"
    /\ mutex = 0
    /\ mutex' = p
    /\ pc' = [pc EXCEPT ![p] = "locked"]
    /\ UNCHANGED <<gitside, scan, diffing, creds, last, steps, repo_path, fs, copy, served>>

\* .as_ref().ok_or("No repository open")?.clone(); the guard is a temporary
\* and is dropped at the end of the statement
read_path(p) ==
    /\ pc[p] = "locked"
    /\ mutex' = 0
    /\ IF repo_path = None
       THEN /\ pc' = [pc EXCEPT ![p] = "idle"]
            /\ Did("command", "No repository open", "")
            /\ UNCHANGED <<gitside, scan, diffing, creds, repo_path, fs, copy, served>>
       ELSE /\ pc' = [pc EXCEPT ![p] = "cloned"]
            /\ copy' = [copy EXCEPT ![p] = repo_path]
            /\ UNCHANGED <<gitside, scan, diffing, creds, last, steps, repo_path, fs, served>>

\* a plausible slip: the command looks the stored path up again when it
\* opens the repository
run_command_reread(p) ==
    /\ pc[p] = "cloned"
    /\ pc' = [pc EXCEPT ![p] = "idle"]
    /\ copy' = [copy EXCEPT ![p] = None]
    /\ IF repo_path = None \/ open_repo(repo_path) # "ok"
       THEN /\ Did("command", "RepoNotFound", copy[p])
            /\ UNCHANGED <<gitside, scan, diffing, creds, repo_path, fs, mutex, served>>
       ELSE /\ served' = [served EXCEPT ![repo_path] = @ + 1]
            /\ Did("command", "ok", copy[p])
            /\ UNCHANGED <<gitside, scan, diffing, creds, repo_path, fs, mutex>>

\* git::open_repo(&repo_path) and the git call on that repository
run_command(p) ==
    /\ pc[p] = "cloned"
    /\ pc' = [pc EXCEPT ![p] = "idle"]
    /\ copy' = [copy EXCEPT ![p] = None]
    /\ IF open_repo(copy[p]) # "ok"
       THEN /\ Did("command", open_repo(copy[p]), copy[p])
            /\ UNCHANGED <<gitside, scan, diffing, creds, repo_path, fs, mutex, served>>
       ELSE /\ served' = [served EXCEPT ![copy[p]] = @ + 1]
            /\ Did("command", "ok", copy[p])
            /\ UNCHANGED <<gitside, scan, diffing, creds, repo_path, fs, mutex>>

\* a plausible slip: the path is stored before the repository is opened
open_repository_store_first(p, path, info_ok) ==
    /\ pc[p] = "idle"
    /\ repo_path' = path
    /\ Did("open_repository",
           IF open_repo(path) # "ok" THEN open_repo(path)
           ELSE IF info_ok THEN "ok" ELSE "Git2", path)
    /\ UNCHANGED <<gitside, scan, diffing, creds, fs, mutex, pc, copy, served>>

\* open_repository up to the store: open_repo(&path)? and get_repo_info(&repo)?
open_repository(p, path, info_ok) ==
    /\ pc[p] = "idle"
    /\ IF open_repo(path) # "ok"
       THEN /\ Did("open_repository", open_repo(path), path)
            /\ UNCHANGED <<gitside, scan, diffing, creds, session>>
       ELSE IF ~info_ok
       THEN /\ Did("open_repository", "Git2", path)
            /\ UNCHANGED <<gitside, scan, diffing, creds, session>>
       ELSE /\ pc' = [pc EXCEPT ![p] = "opened"]
            /\ copy' = [copy EXCEPT ![p] = path]
            /\ UNCHANGED <<gitside, scan, diffing, creds, last, steps, repo_path, fs, mutex, served>>

\* init_repository up to the store: Repository::init creates the directory
\* and the repository in it
init_repository(p, path, init_ok, info_ok) ==
    /\ pc[p] = "idle"
    /\ IF ~init_ok
       THEN /\ Did("init_repository", "Git2", path)
            /\ UNCHANGED <<gitside, scan, diffing, creds, session>>
       ELSE /\ fs' = [fs EXCEPT ![path] = "repo"]
            /\ IF ~info_ok
               THEN /\ Did("init_repository", "Git2", path)
                    /\ UNCHANGED <<gitside, scan, diffing, creds, repo_path, mutex, pc, copy, served>>
               ELSE /\ pc' = [pc EXCEPT ![p] = "inited"]
                    /\ copy' = [copy EXCEPT ![p] = path]
                    /\ UNCHANGED <<gitside, scan, diffing, creds, last, steps, repo_path, mutex, served>>

\* *state.repo_path.lock().unwrap() = Some(path): the lock ...
lock_store(p) ==
    /\ pc[p] \in {"opened", "inited"}
    /\ mutex = 0
    /\ mutex' = p
    /\ pc' = [pc EXCEPT ![p] = IF pc[p] = "opened" THEN "store_opened" ELSE "store_inited"]
    /\ UNCHANGED <<gitside, scan, diffing, creds, last, steps, repo_path, fs, copy, served>>

\* ... and the assignment; the guard is dropped with the statement
store_path(p) ==
    /\ pc[p] \in {"store_opened", "store_inited"}
    /\ repo_path' = copy[p]
    /\ mutex' = 0
    /\ pc' = [pc EXCEPT ![p] = "idle"]
    /\ copy' = [copy EXCEPT ![p] = None]
    /\ Did(IF pc[p] = "store_opened" THEN "open_repository" ELSE "init_repository",
           "ok", copy[p])
    /\ UNCHANGED <<gitside, scan, diffing, creds, fs, served>>

\* ----------------------------------------------------------------- scanner
\* name.starts_with('.')
Hidden_never(name) == FALSE

Hidden(name) == Len(name) > 0 /\ name[1] = "."

\* entry_path.is_dir() for the entry called name of the directory at path
IsDir(path, name) ==
    /\ Len(path) < MaxTreeDepth
    /\ dirs[Append(path, name)] # "absent"

RECURSIVE scan_directory(_, _)
RECURSIVE ScanEntries(_, _, _)
\* the loop over read_dir(path): entries holds the names still to visit
ScanEntries(path, entries, current_depth) ==
    IF entries = <<>>
    THEN <<>>
    ELSE (IF IsDir(path, Head(entries)) /\ ~Hidden(Head(entries))
          THEN scan_directory(Append(path, Head(entries)), current_depth + 1)
          ELSE <<>>)
         \o ScanEntries(path, Tail(entries), current_depth)

scan_directory(path, current_depth) ==
    IF current_depth > max_depth
    THEN <<>>
    ELSE IF dirs[path] \in {"repo", "broken"}
    THEN \* .git exists: recorded when it opens, never recursed into
         IF dirs[path] = "repo" THEN <<path>> ELSE <<>>
    ELSE ScanEntries(path, order, current_depth)

scan_for_repositories ==
    /\ IF dirs[<<>>] = "absent"
       THEN /\ found' = <<>>
            /\ Did("scan_for_repos", "OperationFailed", "")
       ELSE /\ found' = scan_directory(<<>>, 0)
            /\ Did("scan_for_repos", "ok", "")
    /\ UNCHANGED <<gitside, session, diffing, creds, dirs, max_depth, order>>

\* -------------------------------------------------------------------- diff
\* the bounded diffs: a delta is binary without hunks or has one or two
\* hunks; a hunk has a header and one or two lines, one of them a change;
\* the line origins are '+', '-', ' ' and '>' (no newline at end of file)
MaxHunkLines == 2
Headers == <<"@@ -1 +1 @@", "@@ -9 +9 @@">>
Origins == {"+", "-", " ", ">"}
HunkLines ==
    {l \in UNION {[1..n -> Origins] : n \in 1..MaxHunkLines} :
        \E i \in DOMAIN l : l[i] \in {"+", "-"}}
Hunks(h) == {[header |-> Headers[h], lines |-> l] : l \in HunkLines}
Deltas ==
    {[binary |-> TRUE, hunks |-> <<>>]}
    \cup {[binary |-> FALSE, hunks |-> <<x>>] : x \in Hunks(1) \cup Hunks(2)}
    \cup {[binary |-> FALSE, hunks |-> <<x, y>>] : x \in Hunks(1), y \in Hunks(2)}

\* what diff.print(Patch, cb) passes to the callback for one hunk: the
\* hunk header line, then the lines of the hunk
RECURSIVE PrintLines(_, _)
PrintLines(header, lines) ==
    IF lines = <<>> THEN <<>>
    ELSE <<[binary |-> FALSE, hunk |-> header, origin |-> Head(lines)]>>
         \o PrintLines(header, Tail(lines))

RECURSIVE PrintHunks(_)
PrintHunks(hunks) ==
    IF hunks = <<>> THEN <<>>
    ELSE <<[binary |-> FALSE, hunk |-> Head(hunks).header, origin |-> "H"]>>
         \o PrintLines(Head(hunks).header, Head(hunks).lines)
         \o PrintHunks(Tail(hunks))

\* for a whole diff: per delta the file header line, then the binary notice
\* or the hunks
RECURSIVE PrintDiff(_)
PrintDiff(deltas) ==
    IF deltas = <<>> THEN <<>>
    ELSE <<[binary |-> Head(deltas).binary, hunk |-> None, origin |-> "F"]>>
         \o (IF Head(deltas).binary
             THEN <<[binary |-> TRUE, hunk |-> None, origin |-> "B"]>>
             ELSE PrintHunks(Head(deltas).hunks))
         \o PrintDiff(Tail(deltas))

\* the `if let Some(h) = hunk` of the callback: a hunk is pushed when its
\* header differs from the header of the last hunk pushed
PushHunk(fd, cb) ==
    IF cb.hunk # None
       /\ (fd.hunks = <<>> \/ fd.hunks[Len(fd.hunks)].header # cb.hunk)
    THEN [fd EXCEPT !.hunks = Append(@, [header |-> cb.hunk, lines |-> <<>>])]
    ELSE fd

\* the line part of the callback
PushLine(fd, cb) ==
    IF cb.origin \notin {"+", "-", " "}
    THEN fd
    ELSE LET line_type == IF cb.origin = "+" THEN "Addition"
                          ELSE IF cb.origin = "-" THEN "Deletion"
                          ELSE IF cb.origin = " " THEN "Context"
                          ELSE "Header"
             counted == [fd EXCEPT !.additions = IF cb.origin = "+" THEN @ + 1 ELSE @,
                                   !.deletions = IF cb.origin = "-" THEN @ + 1 ELSE @]
         IN IF counted.hunks = <<>>
            THEN counted
            ELSE [counted EXCEPT !.hunks[Len(counted.hunks)].lines = Append(@, line_type)]

\* one call of the closure given to diff.print
Callback(fd, cb) == PushLine(PushHunk([fd EXCEPT !.is_binary = cb.binary], cb), cb)

RECURSIVE PrintWith(_, _)
PrintWith(fd, cbs) ==
    IF cbs = <<>> THEN fd ELSE PrintWith(Callback(fd, Head(cbs)), Tail(cbs))

get_file_diff ==
    /\ file_diff' = PrintWith(NewFileDiff, PrintDiff(diff))
    /\ Did("get_file_diff", "ok", "")
    /\ UNCHANGED <<gitside, session, scan, creds, diff>>

\* ------------------------------------------------------------- credentials
\* url.contains("github.com"): the text occurs somewhere in the URL
ContainsGithub(url) ==
    \/ \E i \in DOMAIN url.host : url.host[i] = "github.com"
    \/ \E i \in DOMAIN url.path : url.path[i] = "github.com"

\* the first of the key files that exists and loads, or None
FirstKey(keys) ==
    IF \E i \in DOMAIN KeyPaths : KeyPaths[i] \in keys
    THEN KeyPaths[CHOOSE i \in DOMAIN KeyPaths :
                     /\ KeyPaths[i] \in keys
                     /\ \A j \in 1..(i - 1) : KeyPaths[j] \notin keys]
    ELSE None

\* the closure given to callbacks.credentials
credentials(r) ==
    IF "USER_PASS_PLAINTEXT" \in r.allowed_types
       /\ ContainsGithub(r.url) /\ r.token # None
    THEN [kind |-> "userpass", with |-> r.token]
    ELSE IF "SSH_KEY" \in r.allowed_types /\ r.username_from_url # None
            /\ r.agent
    THEN [kind |-> "ssh_agent", with |-> r.username_from_url]
    ELSE IF "SSH_KEY" \in r.allowed_types /\ r.username_from_url # None
            /\ FirstKey(r.keys) # None
    THEN [kind |-> "ssh_key", with |-> FirstKey(r.keys)]
    ELSE IF "DEFAULT" \in r.allowed_types
    THEN IF r.default THEN [kind |-> "default", with |-> None]
         ELSE [kind |-> "error", with |-> "git2"]
    ELSE [kind |-> "error", with |-> "No valid credentials found"]

\* the transport calls the callback during a fetch, pull or push
ask_credentials ==
    /\ cred' = credentials(request)
    /\ Did("credentials", IF credentials(request).kind = "error" THEN "Git2" ELSE "ok", "")
    /\ UNCHANGED <<gitside, session, scan, diffing, request>>

\* ------------------------------------------------------------------ system
Shas == 1..NextOid

\* a command is accepted while the bound on the number of calls allows it
Ready == steps < MaxOps

Next ==
    \/ Ready /\ \E p \in Paths, c \in 0..MaxBlob : WriteFile(p, c)
    \/ Ready /\ \E id \in Idents : set_git_config(id)
    \/ Ready /\ \E P \in SUBSET Paths : stage_files(P)
    \/ Ready /\ \E P \in SUBSET Paths : unstage_files(P)
    \/ Ready /\ create_commit
    \/ Ready /\ \E k \in Shas : cherry_pick_commit(k)
    \/ Ready /\ \E k \in Shas : revert_commit(k)
    \/ Ready /\ \E k \in Shas : merge_commit(k)
    \/ Ready /\ \E b \in Branches : merge_branch(b)
    \/ Ready /\ \E b \in Branches, k \in 0..NextOid : create_branch(b, k)
    \/ Ready /\ \E b \in Branches : checkout_branch(b)
    \/ Ready /\ \E b \in Branches, force \in BOOLEAN : delete_branch(b, force)
    \/ Ready /\ \E k \in Shas : checkout_commit(k)
    \/ Ready /\ \E k \in Shas, t \in ResetTypes \cup {"keep"} : reset_to_commit(k, t)
    \/ Ready /\ \E fetched \in BOOLEAN, f \in Oids \cup {0} : pull(fetched, f)

Spec == Init /\ [][Next]_vars

\* The same commands with the engine's merge analysis left open: any
\* value of git2::MergeAnalysis may come back, so that the
\* handlers' treatment of every analysis value is exercised.
MergeAnalyses ==
    {{}, {"unborn"}, {"up_to_date"}, {"normal"}, {"fastforward"},
     {"fastforward", "normal"}, {"fastforward", "unborn"}}

NextEngine ==
    \/ Next
    \/ Ready /\ \E k \in Shas, analysis \in MergeAnalyses : merge_commit_on(k, analysis)
    \/ Ready /\ \E b \in Branches, analysis \in MergeAnalyses : merge_branch_on(b, analysis)
    \/ Ready /\ \E fetched \in BOOLEAN, f \in Oids \cup {0}, analysis \in MergeAnalyses :
                  pull_on(fetched, f, analysis)

SpecEngine == Init /\ [][NextEngine]_vars

\* The commands as concurrent calls on the shared AppState.
NextSession ==
    \/ Ready /\ \E p \in Procs : lock_path(p)
    \/ Ready /\ \E p \in Procs : read_path(p)
    \/ Ready /\ \E p \in Procs : run_command(p)
    \/ Ready /\ \E p \in Procs, path \in Dirs, info_ok \in BOOLEAN :
                  open_repository(p, path, info_ok)
    \/ Ready /\ \E p \in Procs, path \in Dirs, init_ok, info_ok \in BOOLEAN :
                  init_repository(p, path, init_ok, info_ok)
    \/ Ready /\ \E p \in Procs : lock_store(p)
    \/ Ready /\ \E p \in Procs : store_path(p)

SpecSession == Init /\ [][NextSession]_vars

\* The scanner on the directory trees of the bounded shape.
InitScan ==
    /\ FreshRepo
    /\ markers = NoMarkers
    /\ tags = [t \in TagNames |-> NoTag]
    /\ remotes = <<>>
    /\ tracking = {}
    /\ results = <<>>
    /\ sig = "alice"
    /\ last = [op |-> "open", res |-> "ok", mode |-> "", out |-> NoPull, again |-> FALSE]
    /\ steps = 0
    /\ NoSession
    /\ NoDiff
    /\ NoRequest
    /\ dirs \in {t \in [Nodes -> NodeKinds] :
                    \A n \in Nodes :
                       (n # <<>> /\ t[n] # "absent") => t[SubSeq(n, 1, Len(n) - 1)] # "absent"}
    /\ max_depth \in 0..MaxScanDepth
    /\ order \in {<<<<"a">>, <<".", "h">>>>, <<<<".", "h">>, <<"a">>>>}
    /\ found = <<>>

NextScan == Ready /\ scan_for_repositories

SpecScan == InitScan /\ [][NextScan]_vars

\* The status engine with the commands that change what it reports.
NextStatus ==
    \/ Ready /\ \E p \in Paths, c \in 0..MaxBlob : WriteFile(p, c)
    \/ Ready /\ \E P \in SUBSET Paths : stage_files(P)
    \/ Ready /\ \E P \in SUBSET Paths : unstage_files(P)
    \/ Ready /\ \E P \in SUBSET Paths : discard_changes(P)
    \/ Ready /\ create_commit
    \/ Ready /\ \E k \in Shas : cherry_pick_commit(k)
    \/ Ready /\ get_status

SpecStatus == Init /\ [][NextStatus]_vars

\* get_file_diff on the diffs of the bounded shape: none, one or two deltas.
InitDiff ==
    /\ FreshRepo
    /\ markers = NoMarkers
    /\ tags = [t \in TagNames |-> NoTag]
    /\ remotes = <<>>
    /\ tracking = {}
    /\ results = <<>>
    /\ sig = "alice"
    /\ last = [op |-> "open", res |-> "ok", mode |-> "", out |-> NoPull, again |-> FALSE]
    /\ steps = 0
    /\ NoSession
    /\ NoScan
    /\ NoRequest
    /\ diff \in {<<>>} \cup {<<d>> : d \in Deltas} \cup {<<d, e>> : d, e \in Deltas}
    /\ file_diff = NewFileDiff

NextDiff == Ready /\ get_file_diff

SpecDiff == InitDiff /\ [][NextDiff]_vars

\* The credentials callback on every request of the bounded shape.
InitCred ==
    /\ FreshRepo
    /\ markers = NoMarkers
    /\ tags = [t \in TagNames |-> NoTag]
    /\ remotes = <<>>
    /\ tracking = {}
    /\ results = <<>>
    /\ sig = "alice"
    /\ last = [op |-> "open", res |-> "ok", mode |-> "", out |-> NoPull, again |-> FALSE]
    /\ steps = 0
    /\ NoSession
    /\ NoScan
    /\ NoDiff
    /\ request \in Requests
    /\ cred = NoCred

NextCred == Ready /\ ask_credentials

SpecCred == InitCred /\ [][NextCred]_vars

\* The remote commands on their own.
NextRemotes ==
    \/ Ready /\ \E name \in RemoteNames : add_remote(name)
    \/ Ready /\ \E name \in RemoteNames : remove_remote(name)
    \/ Ready /\ \E name \in RemoteNames, reachable \in BOOLEAN : fetch(name, reachable)
    \/ Ready /\ \E listed \in BOOLEAN, up \in SUBSET RemoteNames : fetch_all(listed, up)

SpecRemotes == Init /\ [][NextRemotes]_vars

\* The commands that take a commit sha, called with the shas of the
\* repository, a well-formed sha that names no commit and a malformed one,
\* on repositories with staged and unstaged changes.
Malformed == 0 - 1

NextSha ==
    \/ Ready /\ \E p \in Paths, c \in 0..MaxBlob : WriteFile(p, c)
    \/ Ready /\ \E P \in SUBSET Paths : stage_files(P)
    \/ Ready /\ \E k \in Shas \cup {Malformed} : cherry_pick_commit(k)
    \/ Ready /\ \E k \in Shas \cup {Malformed} : revert_commit(k)
    \/ Ready /\ \E k \in Shas \cup {Malformed} : merge_commit(k)
    \/ Ready /\ \E k \in Shas \cup {Malformed}, t \in ResetTypes : reset_to_commit(k, t)
    \/ Ready /\ \E k \in Shas \cup {Malformed} : checkout_commit(k)
    \/ Ready /\ \E k \in Shas \cup {Malformed}, m \in {None, "msg"} :
                  create_tag(k, "v1", m)
    \/ Ready /\ \E k \in Shas \cup {Malformed}, b \in Branches : create_branch(b, k)

SpecSha == Init /\ [][NextSha]_vars

\* The tag commands, with the commands that give them commits and
\* signatures to work on.
NextTags ==
    \/ Ready /\ \E k \in Shas, n \in TagNames, m \in Messages \cup {None} :
                  create_tag(k, n, m)
    \/ Ready /\ \E n \in TagNames : delete_tag(n)
    \/ Ready /\ create_commit
    \/ Ready /\ \E id \in Idents : set_git_config(id)

SpecTags == Init /\ [][NextTags]_vars

\* ==================================================================== claims
MergeOps == {"merge_commit", "merge_branch", "pull"}
PickOps == {"cherry_pick_commit", "revert_commit"}

OpMarker(op) ==
    IF op = "cherry_pick_commit" THEN "CHERRY_PICK_HEAD"
    ELSE IF op = "revert_commit" THEN "REVERT_HEAD"
    ELSE "MERGE_HEAD"

Tip == Len(commits)

\* C1: when cherry_pick_commit, revert_commit, merge_commit or merge_branch
\* leaves unresolved conflicts in the index, the call returns MergeConflict
\* (a successful return never leaves an unmerged entry behind), no commit is
\* created, HEAD and the refs are unchanged, nothing is cleaned up (the
\* operation's marker and every earlier marker are still there), and
\* get_status lists every unmerged path under conflicts.
C1_ConflictLeftVisible ==
    [][last'.op \in PickOps \cup {"merge_commit", "merge_branch"} =>
         /\ (last'.res = "ok" /\ last'.mode \in {"", "normal"})
               => \A p \in Paths : index'[p] # Unmerged
         /\ last'.res = "MergeConflict" =>
               /\ commits' = commits /\ refs' = refs /\ head' = head
               /\ OpMarker(last'.op) \in markers'
               /\ markers \subseteq markers'
               /\ \E p \in Paths : index'[p] = Unmerged
               /\ \A p \in Paths : index'[p] = Unmerged =>
                     p \in PathsOf((get_repo_status.conflicts)')]_vars

C1_Witness ==
    /\ last.op = "merge_branch"
    /\ last.res = "MergeConflict"
    /\ repository_state = "merge"
    /\ \E p \in Paths : index[p] = Unmerged /\ p \in PathsOf(get_repo_status.conflicts)

\* the paths a checkout of `tree` is responsible for: those of the tree and
\* those tracked before the call (in HEAD's tree or in the index)
Tracked(tree) ==
    {p \in Paths : tree[p] # Absent \/ HeadTree[p] # Absent \/ index[p] # Absent}

\* C2: merge_commit(sha) on the FastForward path succeeds whether HEAD is
\* attached to a branch or detached; afterwards HEAD's sha is the target sha,
\* the tracked working tree is the target's tree, and no commit was created.
C2_FastForwardMovesHead ==
    [][\A k \in Oids :
         (merge_commit(k) /\ last'.mode = "fastforward") =>
            /\ last'.res = "ok"
            /\ HeadOid' = k
            /\ commits' = commits
            /\ \A p \in Tracked(TreeOf(k)) : workdir'[p] = TreeOf(k)[p]]_vars

\* C3: merge_branch(name) on the FastForward path succeeds; afterwards the
\* current branch ref and HEAD are at the named branch's tip, the tracked
\* working tree matches that tip, and no merge commit was created.
C3_BranchFastForward ==
    [][\A b \in Branches :
         (merge_branch(b) /\ last'.mode = "fastforward") =>
            /\ last'.res = "ok"
            /\ HeadOid' = refs[b]
            /\ head'.sym = head.sym
            /\ commits' = commits
            /\ \A p \in Tracked(TreeOf(refs[b])) : workdir'[p] = TreeOf(refs[b])[p]]_vars

C2_Witness ==
    /\ last.op = "merge_commit"
    /\ last.mode = "fastforward"
    /\ last.res = "ok"
    /\ head.sym = ""

\* the step created exactly one commit, with parents [pre-merge HEAD, their],
\* and HEAD points to it
MergedOnce(their) ==
    /\ Len(commits') = Len(commits) + 1
    /\ SubSeq(commits', 1, Len(commits)) = commits
    /\ commits'[Len(commits')].parents = <<HeadOid, their>>
    /\ HeadOid' = Len(commits')
    /\ head'.sym = head.sym

\* C4: on the Normal path, when the merge produces no conflicts, merge_commit,
\* merge_branch and pull each create exactly one commit whose parents are the
\* pre-merge HEAD commit and the merged-in commit, in that order, and HEAD
\* points to the new commit afterwards.
C4_MergeCommitParents ==
    [][/\ \A k \in Oids :
            (merge_commit(k) /\ last'.mode = "normal" /\ last'.res = "ok")
               => MergedOnce(k)
       /\ \A b \in Branches :
            (merge_branch(b) /\ last'.mode = "normal" /\ last'.res = "ok")
               => MergedOnce(refs[b])
       /\ \A fetched \in BOOLEAN, f \in Oids :
            (pull(fetched, f) /\ last'.mode = "normal" /\ last'.res = "ok"
               /\ ~last'.out.conflicts)
               => MergedOnce(f)]_vars

C4_Witness ==
    /\ last.op = "pull"
    /\ last.mode = "normal"
    /\ last.res = "ok"
    /\ ~last.out.conflicts
    /\ Len(commits[HeadOid].parents) = 2

\* C5: after cherry_pick_commit, revert_commit, merge_commit, merge_branch or
\* pull succeeds having created a commit, the repository is in no in-progress
\* state and the commit's tree is the conflict-free staged index; a call that
\* finds conflicts stops before the commit and before the cleanup.
C5_CleanAfterCommit ==
    [][last'.op \in PickOps \cup MergeOps =>
         /\ (last'.res = "ok" /\ commits' # commits) =>
               /\ markers' = NoMarkers
               /\ repository_state' = "none"
               /\ ~has_conflicts(index')
               /\ commits'[Len(commits')].tree = index'
         /\ (last'.res = "MergeConflict" \/ last'.out.conflicts) =>
               /\ has_conflicts(index')
               /\ commits' = commits
               /\ OpMarker(last'.op) \in markers']_vars

C5_Witness ==
    /\ last.op = "revert_commit"
    /\ last.res = "ok"
    /\ Len(commits[HeadOid].parents) = 1
    /\ commits[HeadOid].tree = index
    /\ repository_state = "none"

\* C6: the commit cherry_pick_commit creates has the original commit's author
\* as author and the configured identity as committer; the commits created by
\* revert_commit and by the merge operations have the configured identity as
\* both author and committer.
C6_Signatures ==
    [][/\ \A k \in Oids :
            (cherry_pick_commit(k) /\ last'.res = "ok") =>
               /\ commits'[Len(commits')].author = commits[k].author
               /\ commits'[Len(commits')].committer = sig
       /\ (last'.op \in {"revert_commit"} \cup MergeOps
             /\ last'.res = "ok" /\ commits' # commits) =>
               /\ commits'[Len(commits')].author = sig
               /\ commits'[Len(commits')].committer = sig]_vars

C8_UpToDateNoOp ==
    [][(last'.op \in {"merge_commit", "merge_branch"} /\ last'.mode = "up_to_date") =>
          /\ last'.res = "ok"
          /\ UNCHANGED repo]_vars

C8_Witness ==
    /\ last.op = "merge_branch"
    /\ last.mode = "up_to_date"
    /\ last.res = "ok"
    /\ \E p \in Paths : workdir[p] # HeadTree[p]

\* C9: a path that get_repo_status reports in conflicts is reported in none
\* of staged, unstaged and untracked.
C9_ConflictsExclusive ==
    PathsOf(get_repo_status.conflicts)
       \cap (PathsOf(get_repo_status.staged) \cup PathsOf(get_repo_status.unstaged)
               \cup PathsOf(get_repo_status.untracked)) = {}

C9_Witness ==
    /\ PathsOf(get_repo_status.conflicts) # {}
    /\ last.op = "cherry_pick_commit"

\* C10 as stated: a successful reset_to_commit(sha, t) moves HEAD to sha; Soft
\* leaves index and working tree unchanged; Mixed sets the index to sha's tree
\* and leaves the working tree unchanged; Hard sets both index and working
\* tree to sha's tree; an invalid reset type is rejected with nothing changed.
C10_HardEqualsTree ==
    [][\A k \in Shas, t \in ResetTypes \cup {"keep"} :
         reset_to_commit(k, t) =>
            IF t \notin ResetTypes
            THEN last'.res = "InvalidResetType" /\ UNCHANGED repo
            ELSE last'.res = "ok" =>
                   /\ HeadOid' = k
                   /\ head'.sym = head.sym
                   /\ commits' = commits
                   /\ t = "soft" => (index' = index /\ workdir' = workdir)
                   /\ t = "mixed" => (index' = TreeOf(k) /\ workdir' = workdir)
                   /\ t = "hard" => (index' = TreeOf(k) /\ workdir' = TreeOf(k))]_vars

\* C10 amended: as above, except that Hard sets the index to sha's tree and
\* sets the working-tree content of every tracked path (a path of sha's tree,
\* of the previous HEAD's tree or of the index) to sha's tree, leaving
\* untracked files in place.
C10_HardKeepsUntracked ==
    [][\A k \in Shas, t \in ResetTypes \cup {"keep"} :
         reset_to_commit(k, t) =>
            IF t \notin ResetTypes
            THEN last'.res = "InvalidResetType" /\ UNCHANGED repo
            ELSE last'.res = "ok" =>
                   /\ HeadOid' = k
                   /\ head'.sym = head.sym
                   /\ commits' = commits
                   /\ t = "soft" => (index' = index /\ workdir' = workdir)
                   /\ t = "mixed" => (index' = TreeOf(k) /\ workdir' = workdir)
                   /\ t = "hard" =>
                        /\ index' = TreeOf(k)
                        /\ \A p \in Paths :
                             workdir'[p] = IF p \in Tracked(TreeOf(k))
                                           THEN TreeOf(k)[p] ELSE workdir[p]]_vars

C10_Witness ==
    /\ last.op = "reset_to_commit"
    /\ last.mode = "hard"
    /\ last.res = "ok"
    /\ index = HeadTree
    /\ \E p \in Paths : workdir[p] # Absent /\ HeadTree[p] = Absent

\* C11: reset_to_commit(sha, Hard) is idempotent: a hard reset to sha that
\* directly follows a hard reset to the same sha leaves HEAD, the refs, the
\* index and the working tree as the first one left them.
C11_HardResetIdempotent ==
    [][\A k \in Shas :
         (/\ reset_to_commit(k, "hard")
          /\ last.op = "reset_to_commit" /\ last.mode = "hard"
          /\ last.res = "ok" /\ HeadOid = k)
         => /\ UNCHANGED <<head, refs, index, workdir, markers, commits>>
            /\ last'.res = "ok"
            /\ last'.again]_vars

C11_Witness ==
    /\ last.op = "reset_to_commit"
    /\ last.mode = "hard"
    /\ last.res = "ok"
    /\ last.again
    /\ \E p \in Paths : workdir[p] # HeadTree[p]

\* C12 as stated: delete_branch(name, force) with name the branch HEAD is on
\* fails with OperationFailed for both values of force and changes nothing.
C12_CurrentBranchRefused ==
    [][\A b \in Branches, force \in BOOLEAN :
         (delete_branch(b, force) /\ head.sym = b) =>
            /\ last'.res = "OperationFailed"
            /\ UNCHANGED <<repo, ext>>]_vars

\* C12 amended: that call fails with OperationFailed when the branch exists
\* and with BranchNotFound when HEAD is on a branch that has no commit yet;
\* either way nothing changes, so a HEAD that resolves to a commit resolves
\* to a commit after every operation.
C12_CurrentBranchKept ==
    [][/\ \A b \in Branches, force \in BOOLEAN :
            (delete_branch(b, force) /\ head.sym = b) =>
               /\ last'.res = (IF refs[b] # 0 THEN "OperationFailed" ELSE "BranchNotFound")
               /\ UNCHANGED <<repo, ext>>
       /\ HeadOid # 0 => HeadOid' # 0]_vars

C12_Witness ==
    /\ last.op = "delete_branch"
    /\ last.res = "OperationFailed"
    /\ last.mode = "current"
    /\ head.sym # ""
    /\ refs[head.sym] # 0

\* C13: delete_branch(name, force) on a branch HEAD is not on: a name that
\* does not exist fails with BranchNotFound; with force an existing branch is
\* deleted; without force it is deleted only when HEAD resolves to a commit
\* that has a merge base with the branch tip, and otherwise the call fails
\* with OperationFailed and the branch stays.
C13_UnmergedRefused ==
    [][\A b \in Branches, force \in BOOLEAN :
         (delete_branch(b, force) /\ head.sym # b) =>
            IF refs[b] = 0
            THEN last'.res = "BranchNotFound" /\ UNCHANGED repo
            ELSE IF force \/ (HeadOid # 0 /\ merge_base(HeadOid, refs[b]) # {})
            THEN last'.res = "ok" /\ refs'[b] = 0
            ELSE last'.res = "OperationFailed" /\ UNCHANGED repo]_vars

C13_Witness ==
    /\ last.op = "delete_branch"
    /\ last.res = "OperationFailed"
    /\ last.mode = "unmerged"

C15_UnstageRoundTrip ==
    [][\A P \in SUBSET Paths :
         (unstage_files(P) /\ P # {} /\ P \subseteq PathsOf(get_repo_status.staged)) =>
            /\ last'.res = "ok"
            /\ workdir' = workdir
            /\ \A p \in P : /\ p \notin PathsOf((get_repo_status.staged)')
                            /\ index'[p] = HeadTree[p]]_vars

C15_Witness ==
    /\ last.op = "unstage_files"
    /\ last.res = "ok"
    /\ last.mode = "paths"
    /\ \E p \in Paths : index[p] = HeadTree[p] /\ workdir[p] # index[p]

\* C16: create_tag(sha, name, message) on an existing commit creates, when no
\* tag of that name exists, a lightweight tag resolving to sha if there is no
\* message and an annotated tag (target sha, that message, the configured
\* signature) if there is one, whatever the message text; when a tag of that
\* name exists the call fails and every tag is as it was.
C16_TagKind ==
    [][\A k \in Oids, n \in TagNames, m \in Messages \cup {None} :
         create_tag(k, n, m) =>
            IF tags[n] # NoTag
            THEN last'.res # "ok" /\ tags' = tags
            ELSE /\ last'.res = "ok"
                 /\ tags'[n] = (IF m = None THEN Lightweight(k) ELSE Annotated(k, m, sig))
                 /\ \A o \in TagNames \ {n} : tags'[o] = tags[o]
                 /\ UNCHANGED repo]_vars

C16_Witness ==
    /\ last.op = "create_tag"
    /\ last.res = "Git2"
    /\ \E n \in TagNames : tags[n].kind = "annotated" /\ tags[n].message = ""
    /\ \E n \in TagNames : tags[n].kind = "lightweight"

\* C17: delete_tag(name) on a name without a tag fails with the "not found"
\* error and changes nothing; on an existing tag, lightweight or annotated,
\* it removes the ref, so deleting the same name again fails with "not found".
C17_DeleteTagExplicit ==
    [][\A n \in TagNames :
         delete_tag(n) =>
            IF tags[n] = NoTag
            THEN last'.res = "Generic" /\ UNCHANGED <<repo, ext>>
            ELSE /\ last'.res = "ok"
                 /\ tags'[n] = NoTag
                 /\ \A o \in TagNames \ {n} : tags'[o] = tags[o]
                 /\ UNCHANGED repo]_vars

C17_Witness ==
    /\ last.op = "delete_tag"
    /\ last.res = "Generic"
    /\ last.again
    /\ steps = MaxOps

\* C18: cherry_pick_commit, revert_commit, merge_commit, reset_to_commit,
\* checkout_commit, create_tag and create_branch with a source sha, called
\* with a sha that is malformed or names no commit, fail with CommitNotFound
\* and leave commits, refs, HEAD, index, working tree, in-progress markers
\* and tags unchanged.
C18_BadShaRejectedFirst ==
    [][\A k \in (Shas \cup {Malformed}) \ Oids :
         (\/ cherry_pick_commit(k)
          \/ revert_commit(k)
          \/ merge_commit(k)
          \/ checkout_commit(k)
          \/ \E t \in ResetTypes : reset_to_commit(k, t)
          \/ \E m \in {None, "msg"} : create_tag(k, "v1", m)
          \/ \E b \in Branches : create_branch(b, k))
         => /\ last'.res = "CommitNotFound"
            /\ UNCHANGED <<repo, ext>>]_vars

C18_Witness ==
    /\ last.op = "create_branch"
    /\ last.res = "CommitNotFound"
    /\ \E b \in Branches : refs[b] = 0
    /\ HeadOid # 0
    /\ \E p \in Paths : workdir[p] # index[p]

\* C19: a pull whose fetch fails returns an error without a merge analysis
\* and without a change; in the PullResult of a successful pull fast_forward
\* is true exactly on the fast-forward path, conflicts is true exactly when
\* the normal merge left conflicts (no commit then, HEAD as before), the two
\* are never both true, and updated_files is 1 when HEAD advanced and 0
\* otherwise.
C19_PullFlags ==
    [][\A fetched \in BOOLEAN, f \in Oids \cup {0} :
         pull(fetched, f) =>
            /\ ~fetched => /\ last'.res # "ok"
                           /\ last'.mode = ""
                           /\ UNCHANGED <<repo, ext>>
            /\ last'.res # "ok" => (HeadOid' = HeadOid /\ commits' = commits)
            /\ last'.res = "ok" =>
                  /\ last'.out.fast_forward <=> last'.mode = "fastforward"
                  /\ last'.out.conflicts <=>
                        (last'.mode = "normal" /\ has_conflicts(index'))
                  /\ last'.out.conflicts =>
                        (commits' = commits /\ refs' = refs /\ head' = head)
                  /\ ~(last'.out.fast_forward /\ last'.out.conflicts)
                  /\ last'.out.updated_files = (IF HeadOid' # HeadOid THEN 1 ELSE 0)]_vars

C19_Witness ==
    /\ last.op = "pull"
    /\ last.res = "ok"
    /\ last.out.fast_forward
    /\ last.out.updated_files = 1
    /\ ~last.out.conflicts

\* C20: fetch_all succeeds whenever the remote list can be read; a remote
\* whose fetch fails does not end the loop: every reachable remote is
\* fetched, and the result holds one FetchResult for each of them and for
\* no other, in the order of the remote list.
C20_FetchAllKeepsGoing ==
    [][\A listed \in BOOLEAN, up \in SUBSET RemoteNames :
         (fetch_all(listed, up) /\ listed) =>
            LET fetched == SelectSeq(remotes, LAMBDA r : r \in up)
            IN /\ last'.res = "ok"
               /\ Len(results') = Len(fetched)
               /\ \A i \in 1..Len(fetched) : results'[i].remote = fetched[i]
               /\ tracking' = tracking \cup (Configured \cap up)
               /\ remotes' = remotes]_vars

\* the first two remotes failed and the third was still fetched
C20_Witness ==
    /\ last.op = "fetch_all"
    /\ last.res = "ok"
    /\ Len(remotes) = 3
    /\ tracking = {"upstream"}
    /\ Len(results) = 1
    /\ results[1].remote = "upstream"

C22_StoredPathIsARepo ==
    /\ [](repo_path # None => fs[repo_path] = "repo")
    /\ [][\A p \in Procs, path \in Dirs, info_ok \in BOOLEAN :
            /\ open_repository(p, path, info_ok) =>
                  /\ fs[path] = "missing" => last'.res = "RepoNotFound"
                  /\ fs[path] = "dir" => last'.res = "NotARepo"
                  /\ repo_path' = repo_path
            /\ \A init_ok \in BOOLEAN :
                  init_repository(p, path, init_ok, info_ok) => repo_path' = repo_path
            /\ repo_path' # repo_path =>
                  (last'.res = "ok" /\ last'.op \in {"open_repository", "init_repository"})]_vars

\* an open of a directory without a repository failed after one was stored
C22_Witness ==
    /\ last.op = "open_repository"
    /\ last.res = "NotARepo"
    /\ repo_path = "/repo"

\* C23: scan_for_repositories reports only repositories at depth at most
\* max_depth below the root, none that lies inside a directory holding a
\* .git, and none reached through a directory below the root whose name
\* starts with '.'; no repository is reported twice.
C23_ScanReports ==
    last.op = "scan_for_repos" =>
       \A i \in 1..Len(found) :
          LET p == found[i]
          IN /\ dirs[p] = "repo"
             /\ Len(p) <= max_depth
             /\ \A k \in 0..(Len(p) - 1) : dirs[SubSeq(p, 1, k)] = "dir"
             /\ \A k \in 1..Len(p) : p[k][1] # "."
             /\ \A j \in 1..Len(found) : found[j] = p => j = i

\* a repository was reported while a nested, a hidden and a too deep one
\* were passed over
C23_Witness ==
    /\ last.op = "scan_for_repos"
    /\ last.res = "ok"
    /\ max_depth = 1
    /\ found = <<<< <<"a">> >>>>
    /\ dirs[<< <<"a">>, <<"a">> >>] = "repo"
    /\ dirs[<< <<".", "h">> >>] = "repo"

\* C24: when HEAD's tree, the index and the working tree agree and no
\* conflict is recorded, get_status returns its four buckets empty; and
\* get_status never changes HEAD, the index or the working tree.
C24_CleanIsEmpty ==
    [][get_status =>
         /\ UNCHANGED <<repo, ext>>
         /\ (\A p \in Paths : index[p] = HeadTree[p] /\ workdir[p] = index[p]) =>
               /\ last'.out.staged = {}
               /\ last'.out.unstaged = {}
               /\ last'.out.untracked = {}
               /\ last'.out.conflicts = {}]_vars

\* get_status on a repository without a commit and without a file
C24_Witness ==
    /\ last.op = "get_status"
    /\ HeadOid = 0
    /\ \A p \in Paths : index[p] = Absent /\ workdir[p] = Absent
    /\ last.out.staged = {}
    /\ last.out.untracked = {}

\* C29: discard_changes(paths) overwrites the working-tree content of the
\* listed paths with HEAD's version and changes the working-tree content of
\* no other path; with the empty list nothing is changed.
C29_DiscardOnlyListed ==
    [][\A P \in SUBSET Paths :
         (discard_changes(P) /\ last'.res = "ok") =>
            /\ \A p \in P : HeadTree[p] # Absent => workdir'[p] = HeadTree[p]
            /\ \A p \in Paths \ P : workdir'[p] = workdir[p]]_vars

\* discard_changes with the empty list overwrote a modified file
C29_Witness ==
    /\ last.op = "discard_changes"
    /\ last.res = "ok"
    /\ last.mode = ""
    /\ \A p \in Paths : workdir[p] = HeadTree[p]
    /\ steps = 2

\* C25: a commit made by create_commit has no parent when HEAD had no
\* commit and the former HEAD commit as its only parent otherwise, and HEAD
\* moves to it; this is so while a merge, cherry-pick or revert is in
\* progress too, and the marker of that operation stays.
C25_SingleParent ==
    [][(create_commit /\ last'.res = "ok") =>
         /\ Len(commits') = Len(commits) + 1
         /\ HeadOid' = Len(commits')
         /\ head'.sym = head.sym
         /\ commits'[HeadOid'].parents = (IF HeadOid = 0 THEN <<>> ELSE <<HeadOid>>)
         /\ commits'[HeadOid'].tree = index
         /\ markers' = markers]_vars

\* a commit made after the conflict of a merge was resolved by staging
C25_Witness ==
    /\ last.op = "create_commit"
    /\ last.res = "ok"
    /\ "MERGE_HEAD" \in markers
    /\ Len(commits[HeadOid].parents) = 1

\* C26: create_branch(name, source) creates the branch name at the HEAD
\* commit when source is absent and at the given commit otherwise; it
\* changes neither HEAD nor the current branch nor the index nor the working
\* tree, the branch it returns is not the current one, and when the name is
\* taken it fails and the existing branch keeps its tip.
C26_CreateBranchFrame ==
    [][\A name \in Branches, from \in 0..NextOid :
         create_branch(name, from) =>
            /\ head' = head
            /\ HeadOid' = HeadOid
            /\ index' = index /\ workdir' = workdir
            /\ refs[name] # 0 => (last'.res # "ok" /\ refs' = refs)
            /\ last'.res # "ok" => refs' = refs
            /\ last'.res = "ok" =>
                  /\ refs'[name] = (IF from = 0 THEN HeadOid ELSE from)
                  /\ \A b \in Branches \ {name} : refs'[b] = refs[b]
                  /\ ~(head'.sym = name)]_vars

\* the branch HEAD names was created from a commit while HEAD had none
C26_Witness ==
    /\ last.op = "create_branch"
    /\ last.res = "ok"
    /\ steps = 1
    /\ head.sym # ""
    /\ HeadOid # 0
    /\ index = EmptyTree

\* the lines of the given type over all hunks of the FileDiff
RECURSIVE CountLines(_, _)
CountLines(hunks, line_type) ==
    IF hunks = <<>> THEN 0
    ELSE Cardinality({i \in DOMAIN Head(hunks).lines : Head(hunks).lines[i] = line_type})
         + CountLines(Tail(hunks), line_type)

RECURSIVE CountHunks(_)
CountHunks(deltas) ==
    IF deltas = <<>> THEN 0 ELSE Len(Head(deltas).hunks) + CountHunks(Tail(deltas))

\* C28: in the FileDiff of get_file_diff additions and deletions are the
\* numbers of Addition and Deletion lines over all hunks, every line is an
\* Addition, a Deletion or a Context line, there are as many hunks as the
\* underlying diff has, and a binary file has no hunks.
C28_FileDiffCounts ==
    last.op = "get_file_diff" =>
       /\ file_diff.additions = CountLines(file_diff.hunks, "Addition")
       /\ file_diff.deletions = CountLines(file_diff.hunks, "Deletion")
       /\ \A h \in DOMAIN file_diff.hunks :
             \A i \in DOMAIN file_diff.hunks[h].lines :
                file_diff.hunks[h].lines[i] \in {"Addition", "Deletion", "Context"}
       /\ Len(file_diff.hunks) = CountHunks(diff)
       /\ file_diff.is_binary => file_diff.hunks = <<>>

\* two files with a hunk of the same header each came out as one hunk
C28_Witness ==
    /\ last.op = "get_file_diff"
    /\ Len(diff) = 2
    /\ CountHunks(diff) = 2
    /\ Len(file_diff.hunks) = 1
    /\ file_diff.additions = 2

\* C27: the credentials are resolved in a fixed order: the stored token,
\* only for an HTTPS URL whose host is the hosting provider; for SSH the
\* agent, then the default key files in their order; then the transport's
\* default credential; else the failure "no valid credentials". The stored
\* token is never handed over for a URL whose host is not the provider.
C27_TokenOnlyToProvider ==
    last.op = "credentials" =>
       LET r == request
           provider == r.url.scheme = "https://" /\ r.url.host = <<"github.com">>
           ssh == "SSH_KEY" \in r.allowed_types /\ r.username_from_url # None
       IN /\ cred.kind = "userpass" => provider
          /\ cred.kind = "userpass" =>
                (r.token # None /\ cred.with = r.token)
          /\ cred.kind = "ssh_agent" => (ssh /\ r.agent)
          /\ cred.kind = "ssh_key" =>
                /\ ssh /\ ~r.agent
                /\ cred.with \in r.keys
                /\ cred.with = "id_rsa" => "id_ed25519" \notin r.keys
          /\ cred.kind = "default" => ~(ssh /\ (r.agent \/ r.keys # {}))
          /\ (cred.kind = "error" /\ cred.with = "No valid credentials found") =>
                /\ "DEFAULT" \notin r.allowed_types
                /\ ~(ssh /\ (r.agent \/ r.keys # {}))

\* the token went to a host that only starts with the provider's name
C27_Witness ==
    /\ last.op = "credentials"
    /\ cred.kind = "userpass"
    /\ cred.with = "tok"
    /\ request.url.scheme = "https://"
    /\ request.url.host = <<"github.com", ".evil.example">>

\* HEAD's tree, the index and the working tree agree
CleanTree == index = HeadTree /\ workdir = HeadTree

\* C30: checkout_branch and checkout_commit leave HEAD where it was when
\* they fail; when they succeed HEAD is attached to the named branch or
\* detached at the given commit and the working tree matches it (a tree
\* that was clean before the call is the target's tree after it).
C30_CheckoutAllOrNothing ==
    [][/\ \A name \in Branches :
            checkout_branch(name) =>
               /\ last'.res # "ok" => (head' = head /\ refs' = refs)
               /\ last'.res = "ok" =>
                     /\ head'.sym = name
                     /\ HeadOid' = refs[name]
                     /\ CleanTree => workdir' = TreeOf(refs[name])
       /\ \A k \in Shas :
            checkout_commit(k) =>
               /\ last'.res # "ok" => (head' = head /\ refs' = refs)
               /\ last'.res = "ok" =>
                     /\ head' = [sym |-> "", oid |-> k]
                     /\ CleanTree => workdir' = TreeOf(k)]_vars

\* checkout_commit moved HEAD from a clean tree and left the files as they were
C30_Witness ==
    /\ last.op = "checkout_commit"
    /\ last.res = "ok"
    /\ steps = 1
    /\ head.sym = ""
    /\ index = workdir
    /\ workdir # HeadTree

====
